---------------------------- MODULE Spec2Model ----------------------------
(***************************************************************************)
(* Session-scoped conversation engine of the emotional-support chatbot:    *)
(* SessionManager (src/domain/session_manager.py), ChatbotService          *)
(* (src/domain/chatbot.py), detect_name_from_input (src/domain/prompts.py) *)
(* and the two HTTP handlers of src/services/main.py.                      *)
(*                                                                         *)
(* Text is a sequence of atoms: a word, or the blank " ".  Python's        *)
(* str.split(), str.strip(), len(), "".join() and the f-string of the      *)
(* greeting are computed on that representation.                           *)
(*                                                                         *)
(* Library behaviour the source relies on (LangChain):                     *)
(*  - ConversationBufferWindowMemory(k) keeps every message in             *)
(*    chat_memory.messages; only load_memory_variables cuts the list to    *)
(*    its last 2*k entries.                                                *)
(*  - ConversationalRetrievalChain does not override astream, so           *)
(*    Runnable.astream applies: it awaits ainvoke and yields its result as *)
(*    ONE chunk.  Chain.ainvoke loads the memory variables, awaits the     *)
(*    retriever and the model, and on success calls memory.save_context    *)
(*    (human message, ai message) before it returns.                       *)
(***************************************************************************)
EXTENDS Integers, Sequences, FiniteSets, TLC

VARIABLES
    sessions,    \* SessionManager.sessions: dict session_id -> session record
    heap,        \* the ConversationBufferWindowMemory objects, by reference:
                 \* heap[r] is chat_memory.messages of object r
    retriever,   \* RAGSystem.get_retriever(): None when no PDF was found
    tasks,       \* the requests to /chat/stream in flight, one per slot
    turnCount,   \* number of chat requests accepted so far (tags the turns)
    uuidCount,   \* number of uuid4() values drawn so far
    lastCall,    \* the last call that was not a streamed turn, and its outcome
    handled      \* the session ids stream_response has run for (history variable)

vars == <<sessions, heap, retriever, tasks, turnCount, uuidCount, lastCall, handled>>

-----------------------------------------------------------------------------
(* Bounds of the model *)

MaxTasks == 2       \* chat requests in flight at once
MaxTurns == 3       \* chat requests accepted in one behaviour of Spec
MaxUuid == 1        \* session ids generated by uuid4()
MaxTurnsSeq == 3    \* chat requests accepted in one behaviour of SpecTurn
MaxTurnsWindow == 7 \* chat requests accepted in one behaviour of SpecWindow
MaxTurnsOps == 2    \* chat requests accepted in one behaviour of SpecOps
MaxObjects == 2     \* memory objects allocated in one behaviour of SpecOps
MaxTokens == 4      \* words of a text given to detect_name_from_input

(* Program constants *)

K == 4              \* ConversationBufferWindowMemory(k=4)
MaxInputLen == 5000 \* Field(..., max_length=5000)
MinInputLen == 1    \* Field(..., min_length=1)

None == "<None>"

-----------------------------------------------------------------------------
(* Text *)

Blank == " "

\* len() of one atom; LONG stands for a run of 5001 non-blank characters
AtomLen(a) ==
    CASE a = "LONG" -> 5001
      [] a = Blank -> 1
      [] a = "hola" -> 4
      [] a = "soy" -> 3
      [] a = "SOY" -> 3
      [] a = "marta" -> 5
      [] a = "llamo" -> 5
      [] a = "Marta" -> 5
      [] a = "nombre" -> 6
      [] a = "es" -> 2
      [] a = "mi" -> 2
      [] OTHER -> 1

RECURSIVE TextLen(_)
TextLen(t) == IF t = <<>> THEN 0 ELSE AtomLen(Head(t)) + TextLen(Tail(t))

RECURSIVE LStrip(_)
LStrip(t) == IF t # <<>> /\ Head(t) = Blank THEN LStrip(Tail(t)) ELSE t

RECURSIVE RStrip(_)
RStrip(t) ==
    IF t # <<>> /\ t[Len(t)] = Blank THEN RStrip(SubSeq(t, 1, Len(t) - 1)) ELSE t

\* str.strip()
Strip(t) == RStrip(LStrip(t))

\* str.split(): the whitespace-delimited tokens
Split(t) == SelectSeq(t, LAMBDA a : a # Blank)

\* str.lower() of a token
Lower(a) ==
    CASE a = "SOY" -> "soy"
      [] a = "Marta" -> "marta"
      [] OTHER -> a

\* str.capitalize() of a token: first character upper, the rest lower
Capitalize(a) ==
    CASE a = "marta" -> "Marta"
      [] a = "hola" -> "Hola"
      [] a = "soy" -> "Soy"
      [] a = "SOY" -> "Soy"
      [] a = "llamo" -> "Llamo"
      [] a = "es" -> "Es"
      [] a = "nombre" -> "Nombre"
      [] a = "mi" -> "Mi"
      [] OTHER -> a

\* "".join(chunks)
RECURSIVE Join(_)
Join(chunks) == IF chunks = <<>> THEN <<>> ELSE Head(chunks) \o Join(Tail(chunks))

-----------------------------------------------------------------------------
(* src/domain/prompts.py *)

palabras_clave == {"soy", "llamo", "es", "nombre"}

welcome_generic == <<"¡Hola!", Blank, "¿En qué puedo ayudarte hoy?">>

\* what the call gives when palabras[i + 1] is read past the end of the list
IndexError == "<IndexError>"

\* faulty variant of detect_from: the next token is read without the test
\* i + 1 < len(palabras)
RECURSIVE detect_from_unguarded(_, _)
detect_from_unguarded(palabras, i) ==
    IF i > Len(palabras) THEN None
    ELSE IF Lower(palabras[i]) \in palabras_clave
         THEN IF i + 1 <= Len(palabras) THEN Capitalize(palabras[i + 1]) ELSE IndexError
         ELSE detect_from_unguarded(palabras, i + 1)

RECURSIVE detect_from(_, _)
detect_from(palabras, i) ==
    IF i > Len(palabras) THEN None
    ELSE IF Lower(palabras[i]) \in palabras_clave /\ i + 1 <= Len(palabras)
         THEN Capitalize(palabras[i + 1])
         ELSE detect_from(palabras, i + 1)

detect_name_from_input(user_input) == detect_from(Split(user_input), 1)

-----------------------------------------------------------------------------
(* src/domain/session_manager.py; st is the pair of the sessions dict and   *)
(* the objects it refers to: [sessions |-> ..., heap |-> ...]               *)

EmptyDict == [x \in {} |-> x]

Put(d, k, v) == [x \in DOMAIN d \cup {k} |-> IF x = k THEN v ELSE d[x]]

Pop(d, k) == [x \in DOMAIN d \ {k} |-> d[x]]

UuidPool == <<"u1", "u2", "u3", "u4">>

\* str(uuid.uuid4()) for the n-th draw: a value never seen before
uuid4(n) == UuidPool[n]

get_or_create_session_id(session_id, n) ==
    IF session_id # None /\ session_id # "" THEN session_id ELSE uuid4(n + 1)

\* whether get_or_create_session_id draws a uuid
draws_uuid(session_id) == session_id = None \/ session_id = ""

\* faulty variant of get_or_create_session: one memory object serves every session
get_or_create_session_shared(st, session_id) ==
    IF session_id \notin DOMAIN st.sessions
    THEN [sessions |-> Put(st.sessions, session_id,
                           [memory |-> 1, name |-> None, greeted |-> FALSE]),
          heap |-> IF st.heap = <<>> THEN <<<<>>>> ELSE st.heap]
    ELSE st

get_or_create_session(st, session_id) ==
    IF session_id \notin DOMAIN st.sessions
    THEN [sessions |-> Put(st.sessions, session_id,
                           [memory |-> Len(st.heap) + 1, name |-> None, greeted |-> FALSE]),
          heap |-> Append(st.heap, <<>>)]
    ELSE st

\* the reference get_or_create_memory returns, after get_or_create_session
get_or_create_memory(st, session_id) ==
    get_or_create_session(st, session_id).sessions[session_id].memory

\* faulty variant of clear_session: the flags are reset, the session is kept
clear_session_keeps(st, session_id) ==
    IF session_id \in DOMAIN st.sessions
    THEN [st EXCEPT !.sessions[session_id].greeted = FALSE,
                    !.sessions[session_id].name = None]
    ELSE st

\* faulty variant of clear_session: the memory is emptied, the session is kept
clear_session_memory_only(st, session_id) ==
    IF session_id \in DOMAIN st.sessions
    THEN [st EXCEPT !.heap[st.sessions[session_id].memory] = <<>>]
    ELSE st

clear_session(st, session_id) ==
    [st EXCEPT !.sessions = Pop(st.sessions, session_id)]

save_name(st, session_id, name) ==
    LET s == get_or_create_session(st, session_id)
    IN  [s EXCEPT !.sessions[session_id].name = name]

get_name(st, session_id) ==
    IF session_id \in DOMAIN st.sessions THEN st.sessions[session_id].name ELSE None

has_name(st, session_id) ==
    session_id \in DOMAIN st.sessions /\ st.sessions[session_id].name # None

has_greeted(st, session_id) ==
    session_id \in DOMAIN st.sessions /\ st.sessions[session_id].greeted

\* faulty variant of mark_as_greeted: the session is created, the flag is not set
mark_as_greeted_unset(st, session_id) == get_or_create_session(st, session_id)

\* faulty variant of mark_as_greeted: the flag is set on a record that is
\* not stored when the session does not exist yet
mark_as_greeted_lost(st, session_id) ==
    IF session_id \in DOMAIN st.sessions
    THEN [st EXCEPT !.sessions[session_id].greeted = TRUE]
    ELSE st

\* faulty variant of mark_as_greeted: the record is written anew, the name is lost
mark_as_greeted_fresh(st, session_id) ==
    LET s == get_or_create_session(st, session_id)
    IN  [s EXCEPT !.sessions[session_id] =
            [memory |-> @.memory, name |-> None, greeted |-> TRUE]]

mark_as_greeted(st, session_id) ==
    LET s == get_or_create_session(st, session_id)
    IN  [s EXCEPT !.sessions[session_id].greeted = TRUE]

\* one message of chat_memory.messages as get_history formats it
format_message(msg) ==
    [role |-> IF msg.type = "human" THEN "user" ELSE "assistant", content |-> msg.content]

\* Optional[list]: some = FALSE is None
get_history(st, session_id) ==
    IF session_id \notin DOMAIN st.sessions THEN [some |-> FALSE, value |-> <<>>]
    ELSE LET messages == st.heap[st.sessions[session_id].memory]
         IN  [some |-> TRUE,
              value |-> [i \in 1..Len(messages) |-> format_message(messages[i])]]

-----------------------------------------------------------------------------
(* ConversationBufferWindowMemory, as the chain uses it *)

\* faulty variant of buffer_as_messages: the window counts messages, not pairs
buffer_as_messages_k(messages) ==
    IF K > 0
    THEN SubSeq(messages, IF Len(messages) > K THEN Len(messages) - K + 1 ELSE 1,
                Len(messages))
    ELSE <<>>

\* buffer_as_messages: messages[-k*2:] if k > 0 else []
buffer_as_messages(messages) ==
    IF K > 0
    THEN SubSeq(messages, IF Len(messages) > 2 * K THEN Len(messages) - 2 * K + 1 ELSE 1,
                Len(messages))
    ELSE <<>>

\* faulty variant of save_context: the two messages in the wrong order
save_context_swapped(messages, question, answer) ==
    messages \o <<[type |-> "ai", content |-> answer],
                  [type |-> "human", content |-> question]>>

\* save_context: the human message, then the ai message
save_context(messages, question, answer) ==
    messages \o <<[type |-> "human", content |-> question],
                  [type |-> "ai", content |-> answer]>>


-----------------------------------------------------------------------------
(* src/domain/chatbot.py: the fragments stream_response yields *)

\* f"¡Hola {name}! ¿En qué puedo ayudarte hoy?", or GREETING_MESSAGES["welcome_generic"]
greeting_for(name) ==
    IF name # None
    THEN <<"¡Hola", Blank, name, "!", Blank, "¿En qué puedo ayudarte hoy?">>
    ELSE welcome_generic

error_msg == <<"Lo siento, ocurrió un error al procesar tu mensaje. Por favor, inténtalo de nuevo.">>

summary_fallback == <<"No se pudo generar el resumen. Por favor, inténtalo de nuevo más tarde.">>

-----------------------------------------------------------------------------
(* Inputs *)

ProvidedIds == {"A"}

\* bodies of POST /chat/stream: user_input as the client sent it
RawInputs ==
    { <<"hola">>, <<Blank, "hola">>, <<"soy", Blank, "marta">>,
      <<>>, <<Blank>>, <<"LONG">> }

\* what chunk["answer"] can be when the chain call succeeds
Answers == { <<>>, <<"x">> }

\* what chain.run can return in generate_summary
SummaryTexts == { <<Blank, "resumen", Blank>> }

Names == {"Marta"}

Slots == 1..MaxTasks

\* faulty variant of valid_user_input: no validator, only the Field constraints
valid_user_input_field_only(raw) ==
    /\ TextLen(raw) >= MinInputLen
    /\ TextLen(raw) <= MaxInputLen

\* ChatMessage: Field(min_length=1, max_length=5000), then validate_user_input
valid_user_input(raw) ==
    /\ TextLen(raw) >= MinInputLen
    /\ TextLen(raw) <= MaxInputLen
    /\ Strip(raw) # <<>>

\* the value validate_user_input returns
validate_user_input(raw) == Strip(raw)

-----------------------------------------------------------------------------
(* State of one request to /chat/stream *)

IdleTask ==
    [pc |-> "idle", sse |-> FALSE, session_id |-> None, user_input |-> <<>>,
     branch |-> "none", memory |-> 0, chat_history |-> <<>>, emitted |-> <<>>,
     failed |-> FALSE, saved |-> FALSE, retrieverCalled |-> FALSE,
     llmCalled |-> FALSE, first |-> FALSE]

Store == [sessions |-> sessions, heap |-> heap]

\* the slot holds no request that can still take a step
Free(t) == tasks[t].pc \in {"idle", "done", "abandoned"}

\* ids a client can send: its own, or one a response header gave it
KnownIds == ProvidedIds \cup {uuid4(i) : i \in 1..uuidCount}

\* the generator of the request is over (exhausted, or closed by the
\* cancellation): its locals memory and chat_history are gone
Finished(tk, how) == [tk EXCEPT !.pc = how, !.memory = 0, !.chat_history = <<>>]

\* `yield fragment` of stream_response. Under SSE the generator stays
\* suspended at the yield while the event is sent; the list comprehension of
\* the JSON branch asks for the next item at once, and after each of the
\* three yields the generator then runs to its end without another await.
Yield(tk, fragment, at) ==
    IF tk.sse
    THEN [tk EXCEPT !.emitted = Append(@, fragment), !.pc = at]
    ELSE Finished([tk EXCEPT !.emitted = Append(@, fragment)], "done")

\* stream_response from its first line to its first suspension, for the
\* request tk held in slot t
StreamBegin(t, tk) ==
    LET session_id == get_or_create_session_id(tk.session_id, uuidCount)
    IN  /\ handled' = handled \cup {session_id}
        /\ IF ~has_greeted(Store, session_id)
           THEN LET name == detect_name_from_input(tk.user_input)
                    st == mark_as_greeted(Store, session_id)
                IN  /\ sessions' = st.sessions
                    /\ heap' = st.heap
                    /\ tasks' = [tasks EXCEPT ![t] =
                           Yield([tk EXCEPT !.branch = "greeting",
                                              !.first = session_id \notin handled],
                                 greeting_for(name), "yield_greeting")]
           ELSE LET st == get_or_create_session(Store, session_id)
                    memory == get_or_create_memory(Store, session_id)
                    active == [tk EXCEPT !.branch = "active", !.memory = memory,
                                          !.first = session_id \notin handled]
                IN  /\ sessions' = st.sessions
                    /\ heap' = st.heap
                    /\ tasks' = [tasks EXCEPT ![t] =
                           IF retriever = None
                           THEN \* from_llm(retriever=None) raises: except branch
                                Yield([active EXCEPT !.failed = TRUE],
                                      error_msg, "yield_error")
                           ELSE \* astream -> ainvoke: memory variables loaded,
                                \* then the first await on a backend
                                [active EXCEPT
                                    !.chat_history = buffer_as_messages(st.heap[memory]),
                                    !.retrieverCalled = TRUE,
                                    !.pc = "retrieving"]]

-----------------------------------------------------------------------------
(* src/services/main.py: POST /chat/stream *)

\* the request body fails validation: 422 before the handler runs
ChatStreamReject(raw) ==
    /\ ~valid_user_input(raw)
    /\ lastCall' = [op |-> "chat_stream", session_id |-> None, status |-> 422,
                    summary |-> <<>>, llm |-> FALSE, mail |-> FALSE]
    /\ UNCHANGED <<sessions, heap, retriever, tasks, turnCount, uuidCount, handled>>

\* faulty variant of ChatStreamEndpoint: stream_response is given the id of
\* the request body, and draws an id of its own when there is none
ChatStreamEndpoint_unresolved(t, raw, sid, accept) ==
    /\ Free(t)
    /\ valid_user_input(raw)
    /\ LET session_id == IF draws_uuid(sid) THEN uuid4(uuidCount + 2) ELSE sid
           tk == [IdleTask EXCEPT
                     !.sse = accept,
                     !.session_id = session_id,
                     !.user_input = validate_user_input(raw)]
       IN  /\ turnCount' = turnCount + 1
           /\ uuidCount' = IF draws_uuid(sid) THEN uuidCount + 1 ELSE uuidCount
           /\ IF accept
              THEN /\ tasks' = [tasks EXCEPT ![t] = [tk EXCEPT !.pc = "response_start"]]
                   /\ UNCHANGED <<sessions, heap, handled>>
              ELSE StreamBegin(t, tk)
    /\ UNCHANGED <<retriever, lastCall>>

\* chat_stream_endpoint for a valid body; accept says whether the Accept
\* header holds text/event-stream
ChatStreamEndpoint(t, raw, sid, accept) ==
    /\ Free(t)
    /\ valid_user_input(raw)
    /\ LET session_id == get_or_create_session_id(sid, uuidCount)
           tk == [IdleTask EXCEPT
                     !.sse = accept,
                     !.session_id = session_id,
                     !.user_input = validate_user_input(raw)]
       IN  /\ turnCount' = turnCount + 1
           /\ uuidCount' = IF draws_uuid(sid) THEN uuidCount + 1 ELSE uuidCount
           /\ IF accept
              THEN \* StreamingResponse: the generator starts once the
                   \* response has begun to be sent
                   /\ tasks' = [tasks EXCEPT ![t] = [tk EXCEPT !.pc = "response_start"]]
                   /\ UNCHANGED <<sessions, heap, handled>>
              ELSE StreamBegin(t, tk)
    /\ UNCHANGED <<retriever, lastCall>>

\* generate_sse_events asks stream_response for its first item
\* faulty variant of SseBodyStart: a turn waits while another turn of its session
\* is between its first line and its end
SseBodyStart_serialised(t) ==
    /\ tasks[t].pc = "response_start"
    /\ \A u \in Slots \ {t} :
          tasks[u].session_id = tasks[t].session_id =>
              tasks[u].pc \notin {"retrieving", "generating", "yield_greeting",
                                  "yield_content", "yield_error"}
    /\ StreamBegin(t, tasks[t])
    /\ UNCHANGED <<retriever, turnCount, uuidCount, lastCall>>

SseBodyStart(t) ==
    /\ tasks[t].pc = "response_start"
    /\ StreamBegin(t, tasks[t])
    /\ UNCHANGED <<retriever, turnCount, uuidCount, lastCall>>

\* the await on the retrieval backend ends: ok, or it raises
Retrieve(t, ok) ==
    /\ tasks[t].pc = "retrieving"
    /\ tasks' = [tasks EXCEPT ![t] =
           IF ok
           THEN [@ EXCEPT !.pc = "generating", !.llmCalled = TRUE]
           ELSE Yield([@ EXCEPT !.failed = TRUE], error_msg, "yield_error")]
    /\ UNCHANGED <<sessions, heap, retriever, turnCount, uuidCount, lastCall, handled>>

\* faulty variant of GenerateFails: no except branch, the generator just ends
GenerateFails_uncaught(t) ==
    /\ tasks[t].pc = "generating"
    /\ tasks' = [tasks EXCEPT ![t] = Finished([@ EXCEPT !.failed = TRUE], "done")]
    /\ UNCHANGED <<sessions, heap, retriever, turnCount, uuidCount, lastCall, handled>>

\* faulty variant of GenerateFails: the question was put into the memory before the
\* model was called, and stays there when the call fails
GenerateFails_keeps_question(t) ==
    /\ tasks[t].pc = "generating"
    /\ heap' = [heap EXCEPT ![tasks[t].memory] =
           Append(@, [type |-> "human", content |-> tasks[t].user_input])]
    /\ tasks' = [tasks EXCEPT ![t] =
           Yield([@ EXCEPT !.failed = TRUE], error_msg, "yield_error")]
    /\ UNCHANGED <<sessions, retriever, turnCount, uuidCount, lastCall, handled>>

\* the await on the model backend raises
GenerateFails(t) ==
    /\ tasks[t].pc = "generating"
    /\ tasks' = [tasks EXCEPT ![t] =
           Yield([@ EXCEPT !.failed = TRUE], error_msg, "yield_error")]
    /\ UNCHANGED <<sessions, heap, retriever, turnCount, uuidCount, lastCall, handled>>

\* faulty variant of Generate: the fragment is yielded twice
Generate_twice(t, answer) ==
    /\ tasks[t].pc = "generating"
    /\ heap' = [heap EXCEPT ![tasks[t].memory] =
           save_context(@, tasks[t].user_input, answer)]
    /\ tasks' = [tasks EXCEPT ![t] =
           IF answer # <<>>
           THEN Yield([@ EXCEPT !.saved = TRUE, !.emitted = Append(@, answer)],
                      answer, "yield_content")
           ELSE Finished([@ EXCEPT !.saved = TRUE], "done")]
    /\ UNCHANGED <<sessions, retriever, turnCount, uuidCount, lastCall, handled>>

\* the await on the model backend ends with an answer: ainvoke saves the
\* context and returns, astream yields its one chunk, and stream_response
\* yields chunk["answer"] when it is not empty
Generate(t, answer) ==
    /\ tasks[t].pc = "generating"
    /\ heap' = [heap EXCEPT ![tasks[t].memory] =
           save_context(@, tasks[t].user_input, answer)]
    /\ tasks' = [tasks EXCEPT ![t] =
           IF answer # <<>>
           THEN Yield([@ EXCEPT !.saved = TRUE], answer, "yield_content")
           ELSE Finished([@ EXCEPT !.saved = TRUE], "done")]
    /\ UNCHANGED <<sessions, retriever, turnCount, uuidCount, lastCall, handled>>

\* the event has been sent and the next item is asked for: the generator
\* returns (greeting), finds astream exhausted (content) or ends (error)
Resume(t) ==
    /\ tasks[t].pc \in {"yield_greeting", "yield_content", "yield_error"}
    /\ tasks' = [tasks EXCEPT ![t] = Finished(@, "done")]
    /\ UNCHANGED <<sessions, heap, retriever, turnCount, uuidCount, lastCall, handled>>

\* the client of an SSE response disconnects: the response task is
\* cancelled where it is suspended (CancelledError and GeneratorExit are not
\* Exception, so the except branch does not run)
Abandon(t) ==
    /\ tasks[t].sse
    /\ tasks[t].pc \in {"response_start", "retrieving", "generating",
                        "yield_greeting", "yield_content", "yield_error"}
    /\ tasks' = [tasks EXCEPT ![t] = Finished(@, "abandoned")]
    /\ UNCHANGED <<sessions, heap, retriever, turnCount, uuidCount, lastCall, handled>>

-----------------------------------------------------------------------------
(* src/domain/chatbot.py: generate_summary; src/services/main.py: POST /summary *)

\* "\n".join(f"{msg['role'].capitalize()}: {msg['content']}" for msg in chat_history)
RECURSIVE formatted_history(_)
formatted_history(chat_history) ==
    IF chat_history = <<>> THEN <<>>
    ELSE LET msg == Head(chat_history)
             line == <<Capitalize(msg.role), ":", Blank>> \o msg.content
         IN  IF Len(chat_history) = 1 THEN line
             ELSE line \o <<"\n">> \o formatted_history(Tail(chat_history))

\* faulty variant of generate_summary: the text of the model is returned as it is
generate_summary_untrimmed(chat_history, llm) ==
    IF llm = <<"raise">> THEN summary_fallback ELSE llm

\* generate_summary: llm is "raise" when chain.run raises, else the text it returns
generate_summary(chat_history, llm) ==
    IF llm = <<"raise">> THEN summary_fallback ELSE Strip(llm)

NoCall ==
    [op |-> "none", session_id |-> None, status |-> 0,
     summary |-> <<>>, llm |-> FALSE, mail |-> FALSE]

\* faulty variant of CreateSummary: only a missing session gives 404
CreateSummary_none_only(session_id, llm, mailed) ==
    /\ LET history == get_history(Store, session_id)
       IN  IF ~history.some
           THEN lastCall' = [NoCall EXCEPT !.op = "summary", !.session_id = session_id,
                                           !.status = 404]
           ELSE LET summary == generate_summary(history.value, llm)
                IN  lastCall' = [op |-> "summary", session_id |-> session_id,
                                 status |-> IF mailed THEN 200 ELSE 500,
                                 summary |-> summary, llm |-> TRUE, mail |-> TRUE]
    /\ UNCHANGED <<sessions, heap, retriever, tasks, turnCount, uuidCount, handled>>

\* create_summary: the handler has no await, so it runs as one step; mailed
\* is what send_summary_email returns
CreateSummary(session_id, llm, mailed) ==
    /\ LET history == get_history(Store, session_id)
       IN  IF ~history.some \/ history.value = <<>>
           THEN lastCall' = [NoCall EXCEPT !.op = "summary", !.session_id = session_id,
                                           !.status = 404]
           ELSE LET summary == generate_summary(history.value, llm)
                IN  lastCall' = [op |-> "summary", session_id |-> session_id,
                                 status |-> IF mailed THEN 200 ELSE 500,
                                 summary |-> summary, llm |-> TRUE, mail |-> TRUE]
    /\ UNCHANGED <<sessions, heap, retriever, tasks, turnCount, uuidCount, handled>>

-----------------------------------------------------------------------------
(* The store operations nothing in src/ calls on a request: they are part   *)
(* of SessionManager's interface and run as one step each                   *)

ClearSession(session_id) ==
    /\ LET st == clear_session(Store, session_id)
       IN  sessions' = st.sessions /\ heap' = st.heap
    /\ UNCHANGED <<retriever, tasks, turnCount, uuidCount, lastCall, handled>>

SaveName(session_id, name) ==
    /\ LET st == save_name(Store, session_id, name)
       IN  sessions' = st.sessions /\ heap' = st.heap
    /\ UNCHANGED <<retriever, tasks, turnCount, uuidCount, lastCall, handled>>

GetOrCreateMemory(session_id) ==
    /\ LET st == get_or_create_session(Store, session_id)
       IN  sessions' = st.sessions /\ heap' = st.heap
    /\ UNCHANGED <<retriever, tasks, turnCount, uuidCount, lastCall, handled>>

-----------------------------------------------------------------------------
(* Specifications *)

\* lifespan(): SessionManager() is empty, the retriever is set or None
Init ==
    /\ sessions = EmptyDict
    /\ heap = <<>>
    /\ retriever \in {None, "retriever"}
    /\ tasks = [t \in Slots |-> IdleTask]
    /\ turnCount = 0
    /\ uuidCount = 0
    /\ lastCall = NoCall
    /\ handled = {}

\* a new request takes the lowest slot that is free
LowestFree(t) == Free(t) /\ \A u \in Slots : u < t => ~Free(u)

\* a step that may create a session stays within the bound on objects
MayCreate(session_id) == session_id \in DOMAIN sessions \/ Len(heap) < MaxObjects

\* The turn engine under concurrency: up to MaxTasks server-sent-event
\* requests in flight, over the session ids a client can know, and
\* clear_session at any moment.
Next ==
    \/ \E t \in Slots, sid \in KnownIds \cup {None} :
          /\ turnCount < MaxTurns
          /\ draws_uuid(sid) => uuidCount < MaxUuid
          /\ LowestFree(t)
          /\ ChatStreamEndpoint(t, <<"soy", Blank, "marta">>, sid, TRUE)
    \/ \E t \in Slots : SseBodyStart(t)
    \/ \E t \in Slots, ok \in BOOLEAN : Retrieve(t, ok)
    \/ \E t \in Slots : GenerateFails(t)
    \/ \E t \in Slots, answer \in Answers : Generate(t, answer)
    \/ \E t \in Slots : Resume(t)
    \/ \E t \in Slots : Abandon(t)
    \/ \E sid \in KnownIds : ClearSession(sid)

Spec == Init /\ [][Next]_vars

\* One request at a time, with every kind of body, session id and Accept
\* header, every backend outcome, and clear_session between the steps.
NextTurn ==
    \/ \E raw \in RawInputs : ChatStreamReject(raw)
    \/ \E raw \in RawInputs, sid \in KnownIds \cup {None, ""}, accept \in BOOLEAN :
          /\ turnCount < MaxTurnsSeq
          /\ draws_uuid(sid) => uuidCount < MaxUuid
          /\ ChatStreamEndpoint(1, raw, sid, accept)
    \/ SseBodyStart(1)
    \/ \E ok \in BOOLEAN : Retrieve(1, ok)
    \/ GenerateFails(1)
    \/ \E answer \in Answers : Generate(1, answer)
    \/ Resume(1)
    \/ Abandon(1)
    \/ \E sid \in KnownIds : ClearSession(sid)

SpecTurn == Init /\ [][NextTurn]_vars

\* One session, one request at a time, (MaxTurnsWindow - 1) turns after the
\* greeting: long enough for chat_memory.messages to outgrow the window.
NextWindow ==
    \/ \E raw \in {<<"hola">>, <<"soy", Blank, "marta">>} :
          /\ turnCount < MaxTurnsWindow
          /\ ChatStreamEndpoint(1, raw, "A", FALSE)
    \/ Retrieve(1, TRUE)
    \/ \E answer \in Answers : Generate(1, answer)

SpecWindow == Init /\ [][NextWindow]_vars

\* The session store's interface and POST /summary, between the steps of
\* one request at a time; the accepted requests all carry the same message.
NextOps ==
    \/ \E raw \in RawInputs : ChatStreamReject(raw)
    \/ \E sid \in KnownIds \cup {None}, accept \in BOOLEAN :
          /\ turnCount < MaxTurnsOps
          /\ draws_uuid(sid) => uuidCount < MaxUuid
          /\ MayCreate(get_or_create_session_id(sid, uuidCount))
          /\ ChatStreamEndpoint(1, <<"soy", Blank, "marta">>, sid, accept)
    \/ MayCreate(tasks[1].session_id) /\ SseBodyStart(1)
    \/ \E ok \in BOOLEAN : Retrieve(1, ok)
    \/ GenerateFails(1)
    \/ \E answer \in Answers : Generate(1, answer)
    \/ Resume(1)
    \/ Abandon(1)
    \/ \E sid \in KnownIds, llm \in SummaryTexts \cup {<<"raise">>}, mailed \in BOOLEAN :
          CreateSummary(sid, llm, mailed)
    \/ \E sid \in KnownIds : ClearSession(sid)
    \/ \E sid \in KnownIds, name \in Names : MayCreate(sid) /\ SaveName(sid, name)
    \/ \E sid \in KnownIds : MayCreate(sid) /\ GetOrCreateMemory(sid)

SpecOps == Init /\ [][NextOps]_vars

-----------------------------------------------------------------------------
(* detect_name_from_input on its own: a text is drawn, then the function is *)
(* called on it                                                             *)

\* the words a text is made of
Tokens == {"mi", "nombre", "es", "soy", "SOY", "Marta", "hola"}

RECURSIVE SeqsUpTo(_, _)
SeqsUpTo(S, n) ==
    IF n = 0 THEN {<<>>}
    ELSE LET shorter == SeqsUpTo(S, n - 1)
         IN  shorter \cup {Append(s, x) : s \in {q \in shorter : Len(q) = n - 1}, x \in S}

\* the text of the words: one blank between them, or blanks around each
RECURSIVE TextOf(_, _)
TextOf(words, wide) ==
    IF words = <<>> THEN IF wide THEN <<Blank>> ELSE <<>>
    ELSE IF wide THEN <<Blank, Head(words)>> \o TextOf(Tail(words), wide)
    ELSE IF Len(words) = 1 THEN words
    ELSE <<Head(words), Blank>> \o TextOf(Tail(words), wide)

DetectCall(words, wide) ==
    [op |-> "pending", words |-> words, user_input |-> TextOf(words, wide),
     result |-> None]

InitDetect ==
    /\ sessions = EmptyDict
    /\ heap = <<>>
    /\ retriever = None
    /\ tasks = [t \in Slots |-> IdleTask]
    /\ turnCount = 0
    /\ uuidCount = 0
    /\ handled = {}
    /\ \E words \in SeqsUpTo(Tokens, MaxTokens), wide \in BOOLEAN :
          lastCall = DetectCall(words, wide)

\* name = detect_name_from_input(user_input)
DetectName ==
    /\ lastCall.op = "pending"
    /\ lastCall' = [lastCall EXCEPT !.op = "detect_name_from_input",
                                    !.result = detect_name_from_input(lastCall.user_input)]
    /\ UNCHANGED <<sessions, heap, retriever, tasks, turnCount, uuidCount, handled>>

NextDetect == DetectName

SpecDetect == InitDetect /\ [][NextDetect]_vars

-----------------------------------------------------------------------------
(* Vocabulary of the claims *)

StoreNext == [sessions |-> sessions', heap |-> heap']

\* slot t runs stream_response from its first line in this step
BeginStep(t) ==
    /\ tasks'[t].branch # "none"
    /\ \/ LowestFree(t) /\ turnCount' = turnCount + 1
       \/ tasks[t].pc = "response_start" /\ tasks'[t] # tasks[t]

\* the greeting texts: the generic one, or the template around a name
GenericGreeting == <<"¡Hola!", Blank, "¿En qué puedo ayudarte hoy?">>

NamedGreeting(name) == <<"¡Hola", Blank, name, "!", Blank, "¿En qué puedo ayudarte hoy?">>

ApologyText == <<"Lo siento, ocurrió un error al procesar tu mensaje. Por favor, inténtalo de nuevo.">>

\* the tokens of a text, capitalized
CapitalizedTokens(text) == {Capitalize(Split(text)[i]) : i \in 1..Len(Split(text))}

IsGreetingFor(fragment, user_input) ==
    \/ fragment = GenericGreeting
    \/ \E name \in CapitalizedTokens(user_input) : fragment = NamedGreeting(name)

-----------------------------------------------------------------------------
(* C1: the first turn handled for a session id emits exactly one fragment,  *)
(* a greeting (generic or with the detected name) produced without any      *)
(* backend call, and the greeted flag of the id is false before that step   *)
(* and true after it, whatever the message is.                              *)

C1_FirstTurn(t) ==
    /\ tasks'[t].branch = "greeting"
    /\ tasks'[t].emitted # <<>>
    /\ ~has_greeted(Store, tasks'[t].session_id)
    /\ has_greeted(StoreNext, tasks'[t].session_id)

C1_FirstResponse(tk) ==
    /\ Len(tk.emitted) = 1
    /\ IsGreetingFor(tk.emitted[1], tk.user_input)
    /\ ~tk.retrieverCalled /\ ~tk.llmCalled /\ ~tk.saved /\ ~tk.failed

C1_FirstTurnGreets ==
    [][\A t \in Slots :
          /\ (BeginStep(t) /\ tasks'[t].session_id \notin handled) =>
                 C1_FirstTurn(t) /\ tasks'[t].first
          /\ tasks'[t].first => C1_FirstResponse(tasks'[t])]_vars

\* a first turn that has ended, greeted by name, for every Accept header
C1_Witness ==
    \E t \in Slots :
        /\ tasks[t].first /\ tasks[t].pc = "done" /\ tasks[t].sse
        /\ tasks[t].emitted = <<NamedGreeting("Marta")>>
        /\ has_greeted(Store, tasks[t].session_id)

-----------------------------------------------------------------------------
(* C2: after any sequence of turns, the history get_history returns holds   *)
(* at most 2*K messages (K = 4), the oldest being evicted first.            *)
(* This is the claim as the specification states it; the code keeps every   *)
(* message.                                                                 *)

IsPrefix(a, b) == Len(a) <= Len(b) /\ SubSeq(b, 1, Len(a)) = a

\* window is the last min(Len(messages), 2*K) entries of messages, in order
IsWindowOf(window, messages) ==
    /\ Len(window) = IF Len(messages) <= 2 * K THEN Len(messages) ELSE 2 * K
    /\ \A i \in 1..Len(window) :
          window[i] = messages[Len(messages) - Len(window) + i]

-----------------------------------------------------------------------------
(* C3: when retrieval or generation fails in an Active turn, the response   *)
(* of that turn is exactly one fragment, the fixed apology text.            *)

-----------------------------------------------------------------------------
(* C4: a turn in which retrieval or generation fails appends nothing to     *)
(* any history (neither the question nor a partial answer) and leaves the   *)
(* sessions, so the greeted flag, as they were: the step in which the       *)
(* failure is handled changes neither, a failed turn has saved nothing,     *)
(* and a memory only ever changes in the step in which a turn saves its     *)
(* pair.                                                                    *)

FailStep(t) ==
    /\ tasks'[t].failed
    /\ tasks'[t] # tasks[t] \/ (LowestFree(t) /\ turnCount' = turnCount + 1)
    /\ tasks[t].pc # "yield_error"

C4_FailedTurnAppendsNothing ==
    [][\A t \in Slots :
          /\ FailStep(t) => sessions' = sessions /\ heap' = heap
          /\ tasks'[t].failed => ~tasks'[t].saved
          /\ \A r \in DOMAIN heap :
                heap'[r] # heap[r] =>
                    \E u \in Slots : /\ tasks[u].memory = r
                                     /\ ~tasks[u].saved /\ tasks'[u].saved
                                     /\ ~tasks'[u].failed]_vars

\* after a successful turn, a turn whose model call failed has ended: the
\* session is still greeted and holds the one pair it held before
C4_Witness ==
    \E t \in Slots :
        /\ tasks[t].failed /\ tasks[t].pc = "done" /\ tasks[t].llmCalled
        /\ has_greeted(Store, tasks[t].session_id)
        /\ Len(get_history(Store, tasks[t].session_id).value) = 2

-----------------------------------------------------------------------------
(* C5: every turn consumed to its end has emitted at least one fragment,    *)
(* whatever the backends did (success, failure, or an empty answer).        *)

C5_TurnAlwaysEmitsText ==
    \A t \in Slots : tasks[t].pc = "done" => Len(tasks[t].emitted) >= 1

-----------------------------------------------------------------------------
(* C6: over turns, summaries and clear_session, the greeted flag of a       *)
(* session id goes from false to true exactly once and is never read false  *)
(* again.  This is the claim as the specification states it; clear_session  *)
(* makes the flag read false again.                                         *)

C6_GreetedNeverReverts ==
    [][\A sid \in DOMAIN sessions :
          has_greeted(Store, sid) => has_greeted(StoreNext, sid)]_vars

(* C6 as amended: the flag of an id goes from false to true only in the     *)
(* step in which a turn emits the greeting for that id, and from true to    *)
(* false only by clear_session removing the session: it is set once in the  *)
(* lifetime of a session and never reset while the session exists.          *)
C6_GreetedUntilCleared ==
    [][\A sid \in DOMAIN sessions \cup DOMAIN sessions' :
          /\ (has_greeted(Store, sid) /\ ~has_greeted(StoreNext, sid)) =>
                 /\ sid \notin DOMAIN sessions'
                 /\ tasks' = tasks
          /\ (~has_greeted(Store, sid) /\ has_greeted(StoreNext, sid)) =>
                 \E t \in Slots : /\ BeginStep(t)
                                  /\ tasks'[t].session_id = sid
                                  /\ tasks'[t].branch = "greeting"
                                  /\ Len(tasks'[t].emitted) = 1]_vars

\* an id that was greeted, cleared and created again reads not greeted,
\* after a summary was asked for
C6_Witness ==
    \E sid \in handled :
        /\ sid \in DOMAIN sessions
        /\ ~has_greeted(Store, sid)
        /\ lastCall.op = "summary"

-----------------------------------------------------------------------------
(* C7: after an Active turn whose stream ends successfully the history has  *)
(* grown by one pair at its end, the question and then the concatenation    *)
(* of the fragments emitted for the turn, and nothing is appended before    *)
(* the stream has ended.  This is the claim as the specification states it. *)

C7_SaveStep(t) == ~tasks[t].saved /\ tasks'[t].saved

C7_PairAppended(t) ==
    LET r == tasks[t].memory
        question == tasks[t].user_input
        answer == Join(tasks'[t].emitted)
    IN  /\ heap'[r] = heap[r] \o <<[type |-> "human", content |-> question],
                                   [type |-> "ai", content |-> answer]>>
        /\ \A q \in DOMAIN heap \ {r} : heap'[q] = heap[q]
        /\ \A sid \in DOMAIN sessions :
              sessions[sid].memory = r =>
                  get_history(StoreNext, sid).value =
                      get_history(Store, sid).value \o
                          <<[role |-> "user", content |-> question],
                            [role |-> "assistant", content |-> answer]>>

-----------------------------------------------------------------------------
(* C8: for distinct session ids and any interleaving of their turns, a      *)
(* step of a turn changes the history, the greeted flag and the name of no  *)
(* session but its own, and no two sessions share a memory.                 *)

SessionView(st, sid) ==
    IF sid \in DOMAIN st.sessions
    THEN [exists |-> TRUE, history |-> get_history(st, sid).value,
          greeted |-> st.sessions[sid].greeted, name |-> st.sessions[sid].name]
    ELSE [exists |-> FALSE, history |-> <<>>, greeted |-> FALSE, name |-> None]

-----------------------------------------------------------------------------
(* C9: in every reachable state and for every id, clear_session followed    *)
(* by get_or_create_session gives a session with an empty history, not      *)
(* greeted and without a name, which is what a never-used id gets; and      *)
(* clear_session of an unknown id changes nothing.                          *)

Observe(st, sid) ==
    [history |-> get_history(st, sid), greeted |-> has_greeted(st, sid),
     name |-> get_name(st, sid), has_name |-> has_name(st, sid)]

FreshView ==
    [history |-> [some |-> TRUE, value |-> <<>>], greeted |-> FALSE,
     name |-> None, has_name |-> FALSE]

NeverUsedId == "never-used"

C9_ClearThenCreateIsFresh ==
    \A sid \in KnownIds :
        LET cleared == clear_session(Store, sid)
            again == get_or_create_session(cleared, sid)
        IN  /\ sid \notin DOMAIN cleared.sessions
            /\ Observe(again, sid) = FreshView
            /\ Observe(again, sid) =
                   Observe(get_or_create_session(Store, NeverUsedId), NeverUsedId)
            /\ sid \notin DOMAIN sessions => cleared = Store

\* a session that is greeted, has a name and a history, beside an unknown id
C9_Witness ==
    \E sid \in KnownIds, other \in KnownIds :
        /\ has_greeted(Store, sid)
        /\ has_name(Store, sid)
        /\ get_history(Store, sid).value # <<>>
        /\ other \notin DOMAIN sessions

-----------------------------------------------------------------------------
(* C10: if the caller abandons the stream of an Active turn before it has   *)
(* ended, the engine takes nothing more from the backends and the pair of   *)
(* that turn is never in the history.  This is the claim as the             *)
(* specification states it.                                                 *)

C10_NoFurtherStep(t) ==
    (tasks[t].pc = "abandoned" /\ tasks'[t] # tasks[t]) => turnCount' = turnCount + 1

C10_AbandonedTurnNeverSaved ==
    [][\A t \in Slots :
          /\ C10_NoFurtherStep(t)
          /\ (tasks'[t].pc = "abandoned" /\ tasks'[t].branch = "active")
                 => ~tasks'[t].saved]_vars

-----------------------------------------------------------------------------
(* C11: a summary request for a session without recorded history (an id     *)
(* that is not in the store, or a session that had only its greeting turn   *)
(* or only failed turns) answers 404 and calls neither the model nor the    *)
(* mail transport; a session with recorded history never answers 404.       *)

\* POST /summary is answered in this step
SummaryStep == lastCall' # lastCall /\ lastCall'.op = "summary"

NoRecordedHistory(st, sid) ==
    ~get_history(st, sid).some \/ get_history(st, sid).value = <<>>

C11_SummaryWithoutHistoryIs404 ==
    [][SummaryStep =>
          /\ NoRecordedHistory(Store, lastCall'.session_id) =>
                 /\ lastCall'.status = 404
                 /\ ~lastCall'.llm /\ ~lastCall'.mail
                 /\ lastCall'.summary = <<>>
          /\ ~NoRecordedHistory(Store, lastCall'.session_id) =>
                 lastCall'.status # 404 /\ lastCall'.llm
          /\ sessions' = sessions /\ heap' = heap]_vars

\* 404 for a session that exists, was greeted and whose only other turn failed
C11_Witness ==
    /\ lastCall.op = "summary" /\ lastCall.status = 404
    /\ ~lastCall.llm /\ ~lastCall.mail
    /\ lastCall.session_id \in DOMAIN sessions
    /\ has_greeted(Store, lastCall.session_id)
    /\ get_history(Store, lastCall.session_id).value = <<>>
    /\ tasks[1].session_id = lastCall.session_id
    /\ tasks[1].pc = "done" /\ tasks[1].failed

-----------------------------------------------------------------------------
(* C12: detect_name_from_input returns None, and raises nothing, for every  *)
(* text without a keyword token and for every text whose last token is a    *)
(* keyword.  This is the claim as the specification states it.              *)

\* the tokens that case-insensitively equal a keyword
KeywordTokens == {"nombre", "es", "soy", "SOY"}

Detected == lastCall.op = "detect_name_from_input"

HasKeyword(words) == \E i \in 1..Len(words) : words[i] \in KeywordTokens

LastIsKeyword(words) == words # <<>> /\ words[Len(words)] \in KeywordTokens

\* a keyword token that is not the last token
KeywordBeforeLast(words) == \E i \in 1..(Len(words) - 1) : words[i] \in KeywordTokens

C12_AbsentWhenLastIsKeyword ==
    Detected =>
        ((~HasKeyword(lastCall.words) \/ LastIsKeyword(lastCall.words))
             => lastCall.result = None)

(* C12 as amended: detect_name_from_input never raises, and it returns None *)
(* exactly when no keyword token is followed by another token: when the     *)
(* text has no keyword token, and when its only keyword token is the last   *)
(* token.  A keyword in last position does not make the result None when an *)
(* earlier token is a keyword too.                                          *)
C12_AbsentIffNoKeywordBeforeLast ==
    Detected =>
        /\ lastCall.result # IndexError
        /\ (lastCall.result = None) <=> ~KeywordBeforeLast(lastCall.words)

\* the keyword is the last token, after a word that is no keyword
C12_Witness ==
    /\ Detected
    /\ lastCall.words = <<"hola", "soy">>
    /\ lastCall.result = None

-----------------------------------------------------------------------------
(* C13: a request that carries a session id is handled under exactly that   *)
(* id, which is the id of the response; a request without one (absent, or   *)
(* the empty string) gets a new id that is in no session, was given to no   *)
(* client and belongs to no request; the turn registers its state under     *)
(* the id of the response, so the next turn with that id, while the         *)
(* session exists, is an Active turn and is not greeted again.              *)

\* the values the session_id of a request body can take
RequestIds == ProvidedIds \cup {UuidPool[i] : i \in DOMAIN UuidPool} \cup {None, ""}

\* the id of the response of the request in slot t: header x-session-id
ResponseId(t) == tasks'[t].session_id

C13_Resolved(t, sid) ==
    /\ sid \notin {None, ""} => ResponseId(t) = sid /\ uuidCount' = uuidCount
    /\ sid \in {None, ""} =>
           /\ uuidCount' = uuidCount + 1
           /\ ResponseId(t) = uuid4(uuidCount')
           /\ ResponseId(t) \notin DOMAIN sessions \cup KnownIds \cup handled
           /\ \A u \in Slots : tasks[u].session_id # ResponseId(t)

C13_Registered(t) ==
    /\ handled' = handled \cup {ResponseId(t)}
    /\ tasks[t].pc = "response_start" => ResponseId(t) = tasks[t].session_id
    /\ has_greeted(StoreNext, ResponseId(t))
    /\ has_greeted(Store, ResponseId(t)) <=> tasks'[t].branch = "active"
    /\ \A other \in (DOMAIN sessions \cup DOMAIN sessions') \ {ResponseId(t)} :
           SessionView(StoreNext, other) = SessionView(Store, other)

C13_TurnUsesTheResolvedId ==
    [][\A t \in Slots :
          /\ (turnCount' = turnCount + 1 /\ LowestFree(t)) =>
                 \A raw \in {r \in RawInputs : Strip(r) = tasks'[t].user_input},
                    sid \in RequestIds :
                     ChatStreamEndpoint(t, raw, sid, tasks'[t].sse) => C13_Resolved(t, sid)
          /\ BeginStep(t) => C13_Registered(t)]_vars

\* a request without an id was greeted under a new id, and the next request
\* with that id is in its Active branch
C13_Witness ==
    /\ uuidCount = 1
    /\ tasks[1].session_id = uuid4(1)
    /\ tasks[1].branch = "active" /\ tasks[1].pc = "retrieving"
    /\ uuid4(1) \in handled
    /\ has_greeted(Store, uuid4(1))

-----------------------------------------------------------------------------
(* C14: within one response the fragments are what the backend produced,    *)
(* in its order: each is handed to the caller in the step in which the      *)
(* chain returns it, before anything more is asked of the backend; the      *)
(* fragments of a turn only ever grow at the end, by one fragment, and a    *)
(* fragment already handed over is never changed or repeated.  The chain    *)
(* of this program produces one chunk per turn, the whole answer.           *)

\* what the chain produced in the step in which the turn in slot t saved
Produced(t) == LET messages == heap'[tasks[t].memory]
               IN  messages[Len(messages)].content

-----------------------------------------------------------------------------
(* C15: the greeting turn of a session calls neither the retriever nor the  *)
(* model and changes nothing of the session but the greeted flag: the       *)
(* history is empty after it (the message and the greeting are not          *)
(* appended), the name is what it was, no memory object changes, and the    *)
(* rest of the turn changes nothing at all.                                 *)

GreetingStep(t) == BeginStep(t) /\ tasks'[t].branch = "greeting"

C15_GreetingOnlySetsTheFlag ==
    [][\A t \in Slots :
          /\ GreetingStep(t) =>
                LET id == tasks'[t].session_id
                IN  /\ ~tasks'[t].retrieverCalled /\ ~tasks'[t].llmCalled
                    /\ ~tasks'[t].saved
                    /\ has_greeted(StoreNext, id)
                    /\ get_history(StoreNext, id) = [some |-> TRUE, value |-> <<>>]
                    /\ get_name(StoreNext, id) = get_name(Store, id)
                    /\ \A r \in DOMAIN heap : heap'[r] = heap[r]
                    /\ id \in DOMAIN sessions =>
                           sessions' = [sessions EXCEPT ![id].greeted = TRUE]
                    /\ \A other \in DOMAIN sessions \ {id} :
                           sessions'[other] = sessions[other]
          /\ (tasks[t].branch = "greeting" /\ tasks[t].pc = "yield_greeting"
                  /\ tasks'[t] # tasks[t]) =>
                /\ sessions' = sessions /\ heap' = heap
                /\ ~tasks'[t].retrieverCalled /\ ~tasks'[t].llmCalled
                /\ tasks'[t].emitted = tasks[t].emitted]_vars

\* a session that had a name before its greeting turn: after the turn it is
\* greeted, keeps the name and has an empty history
C15_Witness ==
    /\ tasks[1].branch = "greeting" /\ tasks[1].pc = "done"
    /\ has_greeted(Store, tasks[1].session_id)
    /\ get_name(Store, tasks[1].session_id) = "Marta"
    /\ get_history(Store, tasks[1].session_id) = [some |-> TRUE, value |-> <<>>]
    /\ turnCount = 1

-----------------------------------------------------------------------------
(* C16: nothing serialises the turns of one session id.  A turn whose       *)
(* response has started can always run its first lines, and a turn waiting  *)
(* on a backend can always go on, whatever the other turns of its session   *)
(* do; the history a turn gave to its prompt is a snapshot, the window of   *)
(* what the memory held at some earlier point, and is not refreshed when    *)
(* another turn appends.  So two concurrent turns of a greeted session can  *)
(* both build their prompt from the same history and both append.           *)

InFlightActive(t) ==
    tasks[t].branch = "active" /\ tasks[t].pc \in {"retrieving", "generating", "yield_content"}

C16_TurnsNotSerialised ==
    \A t \in Slots :
        /\ tasks[t].pc = "response_start" => ENABLED SseBodyStart(t)
        /\ tasks[t].pc = "retrieving" => ENABLED Retrieve(t, TRUE)
        /\ tasks[t].pc = "generating" => ENABLED Generate(t, <<"x">>)
        /\ InFlightActive(t) =>
               \E n \in 0..Len(heap[tasks[t].memory]) :
                   tasks[t].chat_history =
                       buffer_as_messages(SubSeq(heap[tasks[t].memory], 1, n))

\* two turns of one session built their prompt from the same (empty)
\* history, and both appended their pair
C16_Witness ==
    \E t, u \in Slots :
        /\ t # u
        /\ tasks[t].session_id = tasks[u].session_id
        /\ tasks[t].memory = tasks[u].memory
        /\ tasks[t].pc = "yield_content" /\ tasks[u].pc = "yield_content"
        /\ tasks[t].saved /\ tasks[u].saved
        /\ tasks[t].chat_history = <<>> /\ tasks[u].chat_history = <<>>
        /\ Len(get_history(Store, tasks[t].session_id).value) = 4

-----------------------------------------------------------------------------
(* C17: when a token that is not the last one equals a keyword, whatever    *)
(* the case, detect_name_from_input returns the token after the first such  *)
(* keyword, capitalized; in particular, for a text made of a keyword phrase *)
(* and a name, such as "mi nombre es Marta", it returns the name.           *)

\* the position of the first keyword token that is not the last token
FirstKeyword(words) ==
    CHOOSE i \in 1..(Len(words) - 1) :
        /\ words[i] \in KeywordTokens
        /\ \A j \in 1..(i - 1) : words[j] \notin KeywordTokens

\* the phrases a user introduces a name with
KeywordPhrases == { <<"soy">>, <<"mi", "nombre", "es">> }

NameTokens == {"Marta"}

C17_ReturnsTheNameAfterKeyword ==
    Detected =>
        /\ KeywordBeforeLast(lastCall.words) =>
               lastCall.result = Capitalize(lastCall.words[FirstKeyword(lastCall.words) + 1])
        /\ \A phrase \in KeywordPhrases, name \in NameTokens :
               lastCall.words = phrase \o <<name>> => lastCall.result = Capitalize(name)

-----------------------------------------------------------------------------
(* C18: a chat request whose text is empty, only whitespace or longer than  *)
(* 5000 characters is rejected before the handler runs: it is never         *)
(* accepted as a turn, its rejection produces no fragment, creates no       *)
(* session and changes no session, and no turn ever runs on such a text.    *)

OnlyWhitespace(text) == \A i \in 1..Len(text) : text[i] = Blank

\* empty, only whitespace (the empty text included), or too long
InvalidText(text) == text = <<>> \/ OnlyWhitespace(text) \/ TextLen(text) > 5000

C18_InvalidInputRejected ==
    [][/\ \A raw \in RawInputs :
             InvalidText(raw) =>
                 /\ turnCount' # turnCount =>
                        \A t \in {u \in Slots : LowestFree(u)}, sid \in RequestIds :
                            ~ChatStreamEndpoint(t, raw, sid, tasks'[t].sse)
                 /\ ChatStreamReject(raw) =>
                        /\ lastCall'.status = 422
                        /\ sessions' = sessions /\ heap' = heap
                        /\ tasks' = tasks /\ handled' = handled
                        /\ turnCount' = turnCount /\ uuidCount' = uuidCount
       /\ \A t \in Slots :
             tasks'[t].pc # "idle" => ~InvalidText(tasks'[t].user_input)]_vars

\* a request was rejected while a greeted session existed
C18_Witness ==
    /\ lastCall.op = "chat_stream" /\ lastCall.status = 422
    /\ \E sid \in DOMAIN sessions : has_greeted(Store, sid)
    /\ tasks[1].pc = "done"

-----------------------------------------------------------------------------
(* C19: generate_summary never fails its caller and changes no session:     *)
(* when the model call raises it returns the fixed fallback text, else the  *)
(* text of the model without its leading and trailing whitespace; the       *)
(* failure of the model alone gives no error status, and history, greeted   *)
(* flag and name of every session are the same before and after.            *)

FallbackText ==
    <<"No se pudo generar el resumen. Por favor, inténtalo de nuevo más tarde.">>

ModelRaises == <<"raise">>

\* the handler reached generate_summary in this step
GenerateSummaryStep(sid, llm, mailed) ==
    CreateSummary(sid, llm, mailed) /\ ~NoRecordedHistory(Store, sid)

C19_SummaryNeverFails ==
    [][SummaryStep =>
          /\ sessions' = sessions /\ heap' = heap /\ tasks' = tasks
          /\ \A sid \in {lastCall'.session_id}, llm \in SummaryTexts \cup {ModelRaises},
                mailed \in {lastCall'.status = 200} :
                 GenerateSummaryStep(sid, llm, mailed) =>
                     /\ lastCall'.llm
                     /\ llm = ModelRaises => lastCall'.summary = FallbackText
                     /\ llm # ModelRaises =>
                            /\ lastCall'.summary = Strip(llm)
                            /\ lastCall'.summary = <<"resumen">>
                     /\ lastCall'.status = IF mailed THEN 200 ELSE 500
                     /\ lastCall'.mail]_vars

\* the model call failed, the fallback text was mailed and the request succeeded
C19_Witness ==
    /\ lastCall.op = "summary" /\ lastCall.llm
    /\ lastCall.summary = FallbackText
    /\ lastCall.status = 200
    /\ get_history(Store, lastCall.session_id).value # <<>>

-----------------------------------------------------------------------------
(* C20: of the turns started concurrently on a session id that was not      *)
(* greeted, exactly one emits the greeting and the others are Active        *)
(* turns.  The flag is read and set in one step without suspension: a turn  *)
(* greets exactly when the flag reads false at its first line, the flag     *)
(* reads true when that step is over, and no step of any turn makes a true  *)
(* flag read false.                                                         *)

C20_OneTurnGreets ==
    [][/\ \A t \in Slots :
             BeginStep(t) =>
                 /\ tasks'[t].branch = "greeting" <=> ~has_greeted(Store, tasks'[t].session_id)
                 /\ tasks'[t].branch = "active" <=> has_greeted(Store, tasks'[t].session_id)
                 /\ has_greeted(StoreNext, tasks'[t].session_id)
       /\ tasks' # tasks =>
             \A sid \in DOMAIN sessions :
                 has_greeted(Store, sid) => has_greeted(StoreNext, sid)]_vars

\* two turns of one session in flight at once: the first is suspended at
\* its greeting, the second is an Active turn waiting on a backend
C20_Witness ==
    \E t, u \in Slots :
        /\ t # u
        /\ tasks[t].session_id = tasks[u].session_id
        /\ tasks[t].pc = "yield_greeting"
        /\ tasks[u].branch = "active" /\ tasks[u].pc \in {"retrieving", "generating"}
        /\ turnCount = 2

-----------------------------------------------------------------------------
(* C21: after the greeting turn of a session in which a name was detected   *)
(* in the message and used in the greeting, get_name of the session gives   *)
(* that name; when no name was detected, the name of the session is what    *)
(* it was before (absent for a new session).                                *)

C21_GreetingCapturesTheName ==
    [][\A t \in Slots :
          GreetingStep(t) =>
              LET id == tasks'[t].session_id
                  greeting == tasks'[t].emitted[1]
              IN  /\ \A name \in CapitalizedTokens(tasks'[t].user_input) :
                         greeting = NamedGreeting(name) =>
                             /\ get_name(StoreNext, id) = name
                             /\ has_name(StoreNext, id)
                  /\ greeting = GenericGreeting =>
                         get_name(StoreNext, id) = get_name(Store, id)]_vars

=============================================================================
